---------------------------- MODULE Spec2Model ----------------------------
(***************************************************************************)
(* Model of the notebook generator script and of the dataset statistics    *)
(* cell ("Cell 3") that the generated notebook carries.                    *)
(*                                                                         *)
(* Part I   the generator script: notebook_cells is assembled by appends   *)
(*          and dumped to the output file.                                 *)
(* Part II  the path derivation of Cell 3 (glob + str.replace), on paths   *)
(*          spelled as sequences of characters.                            *)
(* Part III the aggregation pass of Cell 3 over a read-only dataset tree.  *)
(*                                                                         *)
(* Text is modelled as sequences: a notebook source entry is a sequence of *)
(* text pieces plus a flag telling whether the literal ends in a newline;  *)
(* a path or a label line is a sequence of one-character strings.          *)
(***************************************************************************)
EXTENDS Integers, Sequences, FiniteSets, Bags, TLC

VARIABLES
  \* ---- generator script ----
  gpc,            \* position of the generator script
  notebook_cells, \* line 15
  datasets,       \* line 45
  cell_source,    \* line 56
  d,              \* loop position of "for workspace, project, version in datasets"
  full_notebook,  \* line 186
  nb_file,        \* content of /mnt/data/fire_weapon_complete_model.ipynb
  dumps,          \* number of json.dump calls made so far (line 205)
  \* ---- Cell 3, kernel variables ----
  pc,             \* position inside Cell 3
  image_paths,    \* line 88
  label_paths,    \* line 89
  classes,        \* line 91
  img_shapes,     \* line 92
  i,              \* position of the zip loop, line 93
  lines,          \* f.readlines() not yet consumed by the inner loop, line 95
  handles,        \* label paths whose file handle is open
  class_counts,   \* line 103
  df,             \* line 104
  err,            \* the exception that left the cell, if any
  \* ---- the dataset tree on disk (read-only) ----
  treeImages,     \* the *.jpg files under train/images, or Unknown before the first glob
  treeLabel,      \* label path -> content of the file (or Missing), as far as observed
  treeImage,      \* image path -> decoded image (or NoImage), as far as observed
  \* ---- re-execution of Cell 3 ----
  run,            \* how many times Cell 3 has been started
  prev_counts,    \* class_counts as left by the previous execution
  prev_df         \* df as left by the previous execution

gvars == <<gpc, notebook_cells, datasets, cell_source, d, full_notebook, nb_file, dumps>>
kvars == <<pc, image_paths, label_paths, classes, img_shapes, i, lines, handles,
           class_counts, df, err>>
tvars == <<treeImages, treeLabel, treeImage>>
rvars == <<run, prev_counts, prev_df>>
vars  == <<gvars, kvars, tvars, rvars>>

\* Python's None
None == "None"
\* A name that holds one value is modelled as <<value>>, a name not bound yet as <<>>.

(***************************************************************************)
(*                        Part I: the generator script                     *)
(***************************************************************************)

\* One string literal of a "source" list: its text, and whether it ends in "\n".
Entry(text, nl) == [text |-> text, nl |-> nl]

\* lines 21-25: the "source" list of the cell
TitleSource ==
  << Entry(<<"#", " Complete Fire + Weapon Detection AI Model (YOLOv12)">>, TRUE),
     Entry(<<"This notebook performs model training and deep analysis for fire and weapon detection using YOLOv12.">>, TRUE),
     Entry(<<"It includes advanced visualizations, metrics, sample predictions, and performance monitoring tools.">>, FALSE) >>

\* lines 32-39: the "source" list of the cell
InstallSource ==
  << Entry(<<"#", " Install dependencies">>, TRUE),
     Entry(<<"!pip install roboflow">>, TRUE),
     Entry(<<"!git clone https://github.com/WongKinYiu/yolov12.git">>, TRUE),
     Entry(<<"%cd yolov12">>, TRUE),
     Entry(<<"!pip install -r requirements.txt">>, TRUE),
     Entry(<<"!pip install seaborn scikit-learn pandas opencv-python">>, FALSE) >>

\* lines 78-121: the "source" list of the cell
StatsSource ==
  << Entry(<<"#", " Dataset analysis: visualize samples, classes, sizes">>, TRUE),
     Entry(<<"import os">>, TRUE),
     Entry(<<"import cv2">>, TRUE),
     Entry(<<"import matplotlib.pyplot as plt">>, TRUE),
     Entry(<<"import seaborn as sns">>, TRUE),
     Entry(<<"from glob import glob">>, TRUE),
     Entry(<<"import pandas as pd">>, TRUE),
     Entry(<<"from collections import Counter">>, TRUE),
     Entry(<<"">>, TRUE),
     Entry(<<"image_paths = glob('../**/train/images/*.jpg', recursive=True)">>, TRUE),
     Entry(<<"label_paths = [p.replace('images', 'labels').replace('.jpg', '.txt') for p in image_paths]">>, TRUE),
     Entry(<<"">>, TRUE),
     Entry(<<"classes = []">>, TRUE),
     Entry(<<"img_shapes = []">>, TRUE),
     Entry(<<"for label_file, img_file in zip(label_paths, image_paths):">>, TRUE),
     Entry(<<"    with open(label_file, 'r') as f:">>, TRUE),
     Entry(<<"        for line in f.readlines():">>, TRUE),
     Entry(<<"            cls = line.split()[0]">>, TRUE),
     Entry(<<"            classes.append(int(cls))">>, TRUE),
     Entry(<<"    img = cv2.imread(img_file)">>, TRUE),
     Entry(<<"    if img is not None:">>, TRUE),
     Entry(<<"        h, w = img.shape[:2]">>, TRUE),
     Entry(<<"        img_shapes.append((w, h))">>, TRUE),
     Entry(<<"">>, TRUE),
     Entry(<<"class_counts = Counter(classes)">>, TRUE),
     Entry(<<"df = pd.DataFrame(img_shapes, columns=['Width', 'Height'])">>, TRUE),
     Entry(<<"">>, TRUE),
     Entry(<<"#", " Plot class distribution">>, TRUE),
     Entry(<<"sns.barplot(x=list(class_counts.keys()), y=list(class_counts.values()))">>, TRUE),
     Entry(<<"plt.title('Class Distribution')">>, TRUE),
     Entry(<<"plt.xlabel('Class ID')">>, TRUE),
     Entry(<<"plt.ylabel('Count')">>, TRUE),
     Entry(<<"plt.savefig('class_distribution.png')">>, TRUE),
     Entry(<<"plt.show()">>, TRUE),
     Entry(<<"">>, TRUE),
     Entry(<<"#", " Plot image size distribution">>, TRUE),
     Entry(<<"sns.histplot(df['Width'], color='blue', label='Width', kde=True)">>, TRUE),
     Entry(<<"sns.histplot(df['Height'], color='orange', label='Height', kde=True)">>, TRUE),
     Entry(<<"plt.title('Image Dimension Distribution')">>, TRUE),
     Entry(<<"plt.legend()">>, TRUE),
     Entry(<<"plt.savefig('image_sizes.png')">>, TRUE),
     Entry(<<"plt.show()">>, FALSE) >>

\* lines 130-133: the "source" list of the cell
TrainSource ==
  << Entry(<<"#", " Train YOLOv12 on merged dataset">>, TRUE),
     Entry(<<"!python train.py --img 416 --batch 16 --epochs 50 --data data.yaml --weights yolov12n.pt --device 0">>, FALSE) >>

\* lines 142-154: the "source" list of the cell
MetricsSource ==
  << Entry(<<"#", " Training metrics visualization">>, TRUE),
     Entry(<<"import numpy as np">>, TRUE),
     Entry(<<"data = np.loadtxt('runs/train/exp/results.txt', delimiter=',')">>, TRUE),
     Entry(<<"metrics = ['Train Loss', 'Val Loss', 'mAP50', 'mAP50-95']">>, TRUE),
     Entry(<<"for i in range(4):">>, TRUE),
     Entry(<<"    plt.plot(data[:, i], label=metrics[i])">>, TRUE),
     Entry(<<"plt.legend()">>, TRUE),
     Entry(<<"plt.title('Training Metrics')">>, TRUE),
     Entry(<<"plt.grid(True)">>, TRUE),
     Entry(<<"plt.savefig('metrics.png')">>, TRUE),
     Entry(<<"plt.show()">>, FALSE) >>

\* lines 163-168: the "source" list of the cell
InferenceSource ==
  << Entry(<<"#", " Run detection and evaluate">>, TRUE),
     Entry(<<"!python detect.py --weights runs/train/exp/weights/best.pt --img 416 --conf 0.4 --source ../**/test/images">>, TRUE),
     Entry(<<"#", " (Optional) Confusion matrix if ground truths are available">>, TRUE),
     Entry(<<"#", " You can also write code for precision-recall and IoU if annotations are matched">>, FALSE) >>

\* lines 177-180: the "source" list of the cell
ExportSource ==
  << Entry(<<"#", " Save model">>, TRUE),
     Entry(<<"!cp runs/train/exp/weights/best.pt ../fire_weapon_model.pt">>, FALSE) >>

\* lines 45-55
Datasets ==
  << <<"firedetection-sserj", "fire_detection-uhbdr", 8>>,
     <<"supporting", "person_gun_negative_case_supporting_6_2_negative_case_knife_coco_withoutknifeperson_dataset", 1>>,
     <<"phillip-lavrador", "70k-guns", 5>>,
     <<"weapondetection-mqgm5", "weapon-detection-cabwp", 3>>,
     <<"weapon-detection-cctv", "weapon-detection-cctv-v3-dataset", 1>>,
     <<"dk-uun3s", "danger2", 1>>,
     <<"jiraphat-stgwm", "gun-with-webcam-views", 3>>,
     <<"sts-tjkpp", "safety-wmm3j", 2>>,
     <<"af-swzym", "gun-d8mga", 2>> >>

\* lines 56-60: the three header literals carry no trailing newline (the value of
\* api_key is left out)
HeaderSource ==
  << Entry(<<"#", " Download Datasets from Roboflow">>, FALSE),
     Entry(<<"from roboflow import Roboflow">>, FALSE),
     Entry(<<"rf = Roboflow(api_key=\"...\")">>, FALSE) >>

\* str() of a one-digit version number inside the f-string of line 63
DigitStr(n) == <<"0", "1", "2", "3", "4", "5", "6", "7", "8", "9">>[n + 1]

\* line 62: f'project = rf.workspace("{workspace}").project("{project}")'
ProjectStmt(ds) ==
  Entry(<<"project = rf.workspace(\"", ds[1], "\").project(\"", ds[2], "\")">>, FALSE)
\* line 63: f'version = project.version({version})'
VersionStmt(ds) == Entry(<<"version = project.version(", DigitStr(ds[3]), ")">>, FALSE)
\* line 64
DownloadStmt == Entry(<<"dataset = version.download(\"yolov12\")">>, FALSE)

\* The "source" of a cell dict is a list object. A list literal of the script is
\* held by its name (lit), the list bound to a variable by the variable's name
\* (ref: the dict and the variable share one list), a list written out by its text.
Literal(name) == [lit |-> name, ref |-> "", text |-> <<>>]
SharedList(name) == [lit |-> "", ref |-> name, text |-> <<>>]
Written(text) == [lit |-> "", ref |-> "", text |-> text]
LiteralText(name) ==
  CASE name = "TitleSource" -> TitleSource
    [] name = "InstallSource" -> InstallSource
    [] name = "StatsSource" -> StatsSource
    [] name = "TrainSource" -> TrainSource
    [] name = "MetricsSource" -> MetricsSource
    [] name = "InferenceSource" -> InferenceSource
    [] name = "ExportSource" -> ExportSource

\* lines 18-26
MarkdownCell(source) == [cell_type |-> "markdown", metadata |-> <<>>, source |-> source]
\* lines 29-42 (and every later code cell)
CodeCell(source) ==
  [cell_type |-> "code", metadata |-> <<>>, source |-> source,
   execution_count |-> None, outputs |-> <<>>]

\* (variant: the cell is put in front)
AppendCellFront(cells, c) == <<c>> \o cells
\* list.append on notebook_cells
AppendCell(cells, c) == Append(cells, c)

\* The text of a cell as the notebook format reads it: the entries of "source"
\* concatenated, then cut into lines at the newlines.
RECURSIVE JoinLines(_, _, _)
JoinLines(src, cur, acc) ==
  IF src = <<>>
  THEN IF cur = <<>> THEN acc ELSE Append(acc, cur)
  ELSE IF Head(src).nl
       THEN JoinLines(Tail(src), <<>>, Append(acc, cur \o Head(src).text))
       ELSE JoinLines(Tail(src), cur \o Head(src).text, acc)
\* the list of strings a written-out cell carries
SourceText(source) == IF source.lit # "" THEN LiteralText(source.lit) ELSE source.text
CellLines(source) == JoinLines(SourceText(source), <<>>, <<>>)
\* A line that starts with "#" is a comment to the end of the line.
IsComment(line) == line # <<>> /\ line[1] = "#"

GenInit ==
  /\ gpc = "title"
  /\ notebook_cells = <<>>
  /\ datasets = <<>>
  /\ cell_source = <<>>
  /\ d = 0
  /\ full_notebook = <<>>
  /\ nb_file = <<>>
  /\ dumps = 0

\* A plain notebook_cells.append({...}) statement of the script.
AppendStep(cell, next) ==
  /\ notebook_cells' = AppendCell(notebook_cells, cell)
  /\ gpc' = next
  /\ UNCHANGED <<datasets, cell_source, d, full_notebook, nb_file, dumps,
                 kvars, tvars, rvars>>

\* lines 18-26
AppendTitle ==
  /\ gpc = "title"
  /\ AppendStep(MarkdownCell(Literal("TitleSource")), "install")
\* lines 29-42
AppendInstall ==
  /\ gpc = "install"
  /\ AppendStep(CodeCell(Literal("InstallSource")), "datasets")
\* lines 45-60
BindDatasets ==
  /\ gpc = "datasets"
  /\ datasets' = Datasets
  /\ cell_source' = HeaderSource
  /\ d' = 1
  /\ gpc' = "loop"
  /\ UNCHANGED <<notebook_cells, full_notebook, nb_file, dumps,
                 kvars, tvars, rvars>>
\* lines 61-64: one iteration of the loop
LoopBody ==
  /\ gpc = "loop"
  /\ d <= Len(datasets)
  /\ cell_source' = cell_source \o
        <<ProjectStmt(datasets[d]), VersionStmt(datasets[d]), DownloadStmt>>
  /\ d' = d + 1
  /\ UNCHANGED <<gpc, notebook_cells, datasets, full_notebook, nb_file, dumps,
                 kvars, tvars, rvars>>
\* lines 66-72: the loop is exhausted, the cell is appended
AppendDownload ==
  /\ gpc = "loop"
  /\ d > Len(datasets)
  /\ AppendStep(CodeCell(SharedList("cell_source")), "stats")
\* lines 75-124
AppendStats ==
  /\ gpc = "stats"
  /\ AppendStep(CodeCell(Literal("StatsSource")), "train")
\* lines 127-136
AppendTrain ==
  /\ gpc = "train"
  /\ AppendStep(CodeCell(Literal("TrainSource")), "metrics")
\* lines 139-157
AppendMetrics ==
  /\ gpc = "metrics"
  /\ AppendStep(CodeCell(Literal("MetricsSource")), "inference")
\* lines 160-171
AppendInference ==
  /\ gpc = "inference"
  /\ AppendStep(CodeCell(Literal("InferenceSource")), "export")
\* lines 174-183
AppendExport ==
  /\ gpc = "export"
  /\ AppendStep(CodeCell(Literal("ExportSource")), "assemble")
\* lines 186-200: "cells" is the list notebook_cells itself, not a copy
Assemble ==
  /\ gpc = "assemble"
  /\ full_notebook' = <<[cells |-> "notebook_cells", nbformat |-> 4, nbformat_minor |-> 2]>>
  /\ gpc' = "save"
  /\ UNCHANGED <<notebook_cells, datasets, cell_source, d, nb_file, dumps,
                 kvars, tvars, rvars>>
\* line 205: json.dump writes out what the names stand for at this moment
JsonDump(nb) ==
  [cells |-> [k \in DOMAIN notebook_cells |->
                [notebook_cells[k] EXCEPT
                   !.source = IF @.ref = "cell_source" THEN Written(cell_source) ELSE @]],
   nbformat |-> nb.nbformat, nbformat_minor |-> nb.nbformat_minor]
\* lines 203-205
Save ==
  /\ gpc = "save"
  /\ nb_file' = <<JsonDump(full_notebook[1])>>
  /\ dumps' = dumps + 1
  /\ gpc' = "done"
  /\ UNCHANGED <<notebook_cells, datasets, cell_source, d, full_notebook,
                 kvars, tvars, rvars>>

(***************************************************************************)
(*                  Part II: paths and their derivation                    *)
(***************************************************************************)

MaxPairs == 2   \* files the glob of line 88 finds, at most
MaxLines == 3   \* label lines in the whole tree, at most

ImagesText == <<"i", "m", "a", "g", "e", "s">>
LabelsText == <<"l", "a", "b", "e", "l", "s">>
TrainText == <<"t", "r", "a", "i", "n">>
JpgText == <<".", "j", "p", "g">>
TxtText == <<".", "t", "x", "t">>
TrainImagesDir == <<".", ".", "/", "a", "/", "t", "r", "a", "i", "n", "/", "i", "m", "a", "g", "e", "s", "/">>
PathPlain == <<".", ".", "/", "a", "/", "t", "r", "a", "i", "n", "/", "i", "m", "a", "g", "e", "s", "/", "1", ".", "j", "p", "g">>
PathPlain2 == <<".", ".", "/", "a", "/", "t", "r", "a", "i", "n", "/", "i", "m", "a", "g", "e", "s", "/", "2", ".", "j", "p", "g">>
PathNested == <<".", ".", "/", "a", "/", "b", "/", "t", "r", "a", "i", "n", "/", "i", "m", "a", "g", "e", "s", "/", "1", ".", "j", "p", "g">>
PathDirImages == <<".", ".", "/", "i", "m", "a", "g", "e", "s", "/", "t", "r", "a", "i", "n", "/", "i", "m", "a", "g", "e", "s", "/", "1", ".", "j", "p", "g">>
PathDirMyImages == <<".", ".", "/", "m", "y", "i", "m", "a", "g", "e", "s", "/", "t", "r", "a", "i", "n", "/", "i", "m", "a", "g", "e", "s", "/", "1", ".", "j", "p", "g">>
PathFileImages == <<".", ".", "/", "a", "/", "t", "r", "a", "i", "n", "/", "i", "m", "a", "g", "e", "s", "/", "i", "m", "a", "g", "e", "s", ".", "j", "p", "g">>
PathDirJpg == <<".", ".", "/", "a", ".", "j", "p", "g", "/", "t", "r", "a", "i", "n", "/", "i", "m", "a", "g", "e", "s", "/", "1", ".", "j", "p", "g">>
PathFileJpgJpg == <<".", ".", "/", "a", "/", "t", "r", "a", "i", "n", "/", "i", "m", "a", "g", "e", "s", "/", "1", ".", "j", "p", "g", ".", "j", "p", "g">>
PathUpperJpg == <<".", ".", "/", "a", "/", "t", "r", "a", "i", "n", "/", "i", "m", "a", "g", "e", "s", "/", "1", ".", "J", "P", "G">>
PathValImages == <<".", ".", "/", "a", "/", "v", "a", "l", "/", "i", "m", "a", "g", "e", "s", "/", "1", ".", "j", "p", "g">>

\* The parts of a path between its "/" separators.
RECURSIVE SplitSlash(_, _, _)
SplitSlash(s, cur, acc) ==
  IF s = <<>> THEN Append(acc, cur)
  ELSE IF Head(s) = "/" THEN SplitSlash(Tail(s), <<>>, Append(acc, cur))
       ELSE SplitSlash(Tail(s), Append(cur, Head(s)), acc)
Segments(p) == SplitSlash(p, <<>>, <<>>)

RECURSIVE JoinSlash(_)
JoinSlash(segs) ==
  IF Len(segs) = 0 THEN <<>>
  ELSE IF Len(segs) = 1 THEN segs[1]
       ELSE segs[1] \o <<"/">> \o JoinSlash(Tail(segs))

EndsWith(s, suffix) ==
  /\ Len(s) >= Len(suffix)
  /\ SubSeq(s, Len(s) - Len(suffix) + 1, Len(s)) = suffix

\* line 88: what the pattern '../**/train/images/*.jpg' (recursive) matches:
\* "..", any directories, "train", "images", and a file name that ends in ".jpg"
\* and does not start with a dot.
GlobMatches(p) ==
  LET segs == Segments(p)
      n == Len(segs)
  IN /\ n >= 4
     /\ segs[1] = <<".", ".">>
     /\ segs[n - 2] = TrainText
     /\ segs[n - 1] = ImagesText
     /\ EndsWith(segs[n], JpgText)
     /\ Head(segs[n]) # "."
     /\ \A k \in 2..(n - 3) : segs[k] # <<>> /\ Head(segs[k]) # "."

\* Files that may lie in a dataset tree; the glob keeps those it matches.
TreeFiles ==
  {PathPlain, PathPlain2, PathNested, PathDirImages, PathDirMyImages,
   PathFileImages, PathDirJpg, PathFileJpgJpg, PathUpperJpg, PathValImages}
GlobPaths == {p \in TreeFiles : GlobMatches(p)}

\* str.replace(old, new): every non-overlapping occurrence, left to right.
RECURSIVE StrReplace(_, _, _)
StrReplace(s, old, new) ==
  IF Len(s) < Len(old) THEN s
  ELSE IF SubSeq(s, 1, Len(old)) = old
       THEN new \o StrReplace(SubSeq(s, Len(old) + 1, Len(s)), old, new)
       ELSE <<Head(s)>> \o StrReplace(Tail(s), old, new)

\* line 89: p.replace('images', 'labels').replace('.jpg', '.txt')
LabelPathOf(p) == StrReplace(StrReplace(p, ImagesText, LabelsText), JpgText, TxtText)

\* The sibling label file of an image: only the directory segment "images" that
\* holds the file becomes "labels", only the extension ".jpg" becomes ".txt".
SiblingLabelPath(p) ==
  LET segs == Segments(p)
      n == Len(segs)
      name == segs[n]
      stem == SubSeq(name, 1, Len(name) - Len(JpgText))
  IN JoinSlash([segs EXCEPT ![n - 1] = LabelsText, ![n] = stem \o TxtText])

(***************************************************************************)
(*              Part III: the aggregation pass of Cell 3                   *)
(***************************************************************************)

\* ---- the dataset tree ----
LineClass0 == <<"0", " ", "5", "\n">>
LineClass1 == <<" ", "0", "1", "\n">>
LineBlank == <<"\n">>
LineText == <<"x", " ", "5", "\n">>
LineSet == {LineClass0, LineClass1, LineBlank, LineText}

SeqsUpTo(S, n) == UNION {[1..k -> S] : k \in 0..n}

NoFile == [exists |-> FALSE, content |-> <<>>]
LabelFiles ==
  {NoFile} \cup {[exists |-> TRUE, content |-> c] : c \in SeqsUpTo(LineSet, MaxLines)}

\* What cv2.imread gives for a file: None, or an array whose shape starts (h, w).
NoImage == [ok |-> FALSE, h |-> 0, w |-> 0]
Shapes == {<<480, 640>>, <<640, 640>>}
Images == {NoImage} \cup {[ok |-> TRUE, h |-> s[1], w |-> s[2]] : s \in Shapes}

\* The tree is read-only. A file's content is fixed the first time the pass looks
\* at it and is the same at every later look.
RECURSIVE LinesIn(_, _)
LinesIn(tree, paths) ==
  IF paths = {} THEN 0
  ELSE LET p == CHOOSE q \in paths : TRUE
       IN Len(tree[p].content) + LinesIn(tree, paths \ {p})
LabelChoices(p) ==
  IF p \in DOMAIN treeLabel THEN {treeLabel[p]}
  ELSE {f \in LabelFiles :
          Len(f.content) + LinesIn(treeLabel, DOMAIN treeLabel) <= MaxLines}
ImageChoices(p) == IF p \in DOMAIN treeImage THEN {treeImage[p]} ELSE Images
Observe(tree, p, x) == IF p \in DOMAIN tree THEN tree ELSE (p :> x) @@ tree

\* The k-th file of the tree, named in the order the first glob lists it.
ImgPath(k) == TrainImagesDir \o <<DigitStr(k)>> \o JpgText

Range(s) == {s[k] : k \in DOMAIN s}
\* All orders in which a glob can list the files S.
Orders(S) ==
  {s \in [1..Cardinality(S) -> S] : \A a, b \in 1..Cardinality(S) : a # b => s[a] # s[b]}

\* ---- line 96: line.split() ----
IsSpace(c) == c \in {" ", "\n", "\t", "\r"}
RECURSIVE SplitWs(_, _, _)
SplitWs(s, cur, acc) ==
  IF s = <<>> THEN (IF cur = <<>> THEN acc ELSE Append(acc, cur))
  ELSE IF IsSpace(Head(s))
       THEN SplitWs(Tail(s), <<>>, IF cur = <<>> THEN acc ELSE Append(acc, cur))
       ELSE SplitWs(Tail(s), Append(cur, Head(s)), acc)
StrSplit(line) == SplitWs(line, <<>>, <<>>)

\* ---- line 97: int(cls) ----
DigitChars == <<"0", "1", "2", "3", "4", "5", "6", "7", "8", "9">>
IsDigit(c) == \E k \in 1..10 : DigitChars[k] = c
DigitVal(c) == (CHOOSE k \in 1..10 : DigitChars[k] = c) - 1
Unsigned(tok) ==
  IF tok # <<>> /\ Head(tok) \in {"+", "-"} THEN Tail(tok) ELSE tok
\* int() accepts a sign, then digits, single underscores between digits allowed
IsIntLiteral(tok) ==
  LET u == Unsigned(tok)
  IN /\ u # <<>>
     /\ IsDigit(u[1]) /\ IsDigit(u[Len(u)])
     /\ \A k \in 1..Len(u) : IsDigit(u[k]) \/ u[k] = "_"
     /\ \A k \in 1..(Len(u) - 1) : ~(u[k] = "_" /\ u[k + 1] = "_")
RECURSIVE DigitsValue(_, _)
DigitsValue(u, acc) ==
  IF u = <<>> THEN acc
  ELSE IF Head(u) = "_" THEN DigitsValue(Tail(u), acc)
       ELSE DigitsValue(Tail(u), 10 * acc + DigitVal(Head(u)))
ParseInt(tok) ==
  IF Head(tok) = "-" THEN 0 - DigitsValue(Unsigned(tok), 0)
  ELSE DigitsValue(Unsigned(tok), 0)

\* ---- lines 100-101: h, w = img.shape[:2]; img_shapes.append((w, h)) ----
ShapeEntrySwapped(img) == <<img.h, img.w>>
ShapeEntry(img) == <<img.w, img.h>>

\* ---- line 103: Counter(classes) ----
CounterDistinct(seq) == [c \in Range(seq) |-> 1]
Counter(seq) ==
  [c \in Range(seq) |-> Cardinality({k \in DOMAIN seq : seq[k] = c})]

\* ---- line 104: pd.DataFrame(img_shapes, columns=['Width', 'Height']) ----
DataFrame(rows) == [k \in DOMAIN rows |-> [Width |-> rows[k][1], Height |-> rows[k][2]]]

\* ---- lines 91-92: a fresh list ----
StaleList == classes
FreshList == <<>>

\* ---- line 94: leaving the "with" block closes the file ----
Release(hs, p) == SelectSeq(hs, LAMBDA q : q # p)

KernelInit ==
  /\ pc = "idle"
  /\ image_paths = <<>>
  /\ label_paths = <<>>
  /\ classes = <<>>
  /\ img_shapes = <<>>
  /\ i = 0
  /\ lines = <<>>
  /\ handles = <<>>
  /\ class_counts = <<>>
  /\ df = <<>>
  /\ err = ""
TreeInit ==
  /\ treeImages = <<>>
  /\ treeLabel = <<>>
  /\ treeImage = <<>>
RunInit ==
  /\ run = 0
  /\ prev_counts = <<>>
  /\ prev_df = <<>>

\* The notebook has been written and Cell 3 is executed (lines 79-86: imports).
RunCell ==
  /\ gpc = "done"
  /\ pc = "idle"
  /\ pc' = "glob"
  /\ run' = 1
  /\ UNCHANGED <<gvars, image_paths, label_paths, classes, img_shapes, i, lines,
                 handles, class_counts, df, err, tvars, prev_counts, prev_df>>

\* line 88, on a tree not listed before
Glob ==
  /\ pc = "glob"
  /\ treeImages = <<>>
  /\ \E n \in 0..MaxPairs :
       /\ treeImages' = <<{ImgPath(k) : k \in 1..n}>>
       /\ image_paths' = [k \in 1..n |-> ImgPath(k)]
  /\ pc' = "derive"
  /\ UNCHANGED <<gvars, label_paths, classes, img_shapes, i, lines, handles,
                 class_counts, df, err, treeLabel, treeImage, rvars>>

\* line 88, on the same tree again: the same files, in any order
GlobAgain ==
  /\ pc = "glob"
  /\ treeImages # <<>>
  /\ image_paths' \in Orders(treeImages[1])
  /\ pc' = "derive"
  /\ UNCHANGED <<gvars, label_paths, classes, img_shapes, i, lines, handles,
                 class_counts, df, err, tvars, rvars>>

\* line 89
DeriveLabels ==
  /\ pc = "derive"
  /\ label_paths' = [k \in DOMAIN image_paths |-> LabelPathOf(image_paths[k])]
  /\ pc' = "lists"
  /\ UNCHANGED <<gvars, image_paths, classes, img_shapes, i, lines, handles,
                 class_counts, df, err, tvars, rvars>>

\* lines 91-92
InitLists ==
  /\ pc = "lists"
  /\ classes' = FreshList
  /\ img_shapes' = <<>>
  /\ i' = 1
  /\ pc' = "loop"
  /\ UNCHANGED <<gvars, image_paths, label_paths, lines, handles, class_counts, df,
                 err, tvars, rvars>>

\* line 93: zip(label_paths, image_paths) yields the next pair or is exhausted
ZipNext ==
  /\ pc = "loop"
  /\ pc' = IF i <= Len(label_paths) /\ i <= Len(image_paths) THEN "open" ELSE "count"
  /\ UNCHANGED <<gvars, image_paths, label_paths, classes, img_shapes, i, lines,
                 handles, class_counts, df, err, tvars, rvars>>

\* (variant: a path with no file is passed over)
OpenLabelSkipMissing ==
  /\ pc = "open"
  /\ \E f \in LabelChoices(label_paths[i]) :
       /\ treeLabel' = Observe(treeLabel, label_paths[i], f)
       /\ IF f.exists
          THEN /\ handles' = Append(handles, label_paths[i])
               /\ pc' = "readlines"
          ELSE /\ handles' = handles
               /\ pc' = "imread"
  /\ UNCHANGED <<gvars, image_paths, label_paths, classes, img_shapes, i, lines,
                 class_counts, df, err, treeImages, treeImage, rvars>>

\* line 94: open(label_file, 'r'); a path with no file raises FileNotFoundError
OpenLabel ==
  /\ pc = "open"
  /\ \E f \in LabelChoices(label_paths[i]) :
       /\ treeLabel' = Observe(treeLabel, label_paths[i], f)
       /\ IF f.exists
          THEN /\ handles' = Append(handles, label_paths[i])
               /\ pc' = "readlines"
               /\ err' = err
          ELSE /\ handles' = handles
               /\ pc' = "error"
               /\ err' = "FileNotFoundError"
  /\ UNCHANGED <<gvars, image_paths, label_paths, classes, img_shapes, i, lines,
                 class_counts, df, treeImages, treeImage, rvars>>

\* line 95: f.readlines()
ReadLines ==
  /\ pc = "readlines"
  /\ lines' = treeLabel[label_paths[i]].content
  /\ pc' = "line"
  /\ UNCHANGED <<gvars, image_paths, label_paths, classes, img_shapes, i, handles,
                 class_counts, df, err, tvars, rvars>>

\* (variant: the file is opened without "with", an exception leaves it open)
RaiseNoClose(e) ==
  /\ pc' = "error"
  /\ err' = e
  /\ UNCHANGED <<classes, lines, handles>>

\* An exception inside the "with" block: the block closes the file, the exception
\* leaves the cell.
RaiseInWith(e) ==
  /\ handles' = Release(handles, label_paths[i])
  /\ pc' = "error"
  /\ err' = e
  /\ UNCHANGED <<classes, lines>>

\* (variant: a line without tokens is passed over)
ParseLineSkipBlank ==
  /\ pc = "line"
  /\ lines # <<>>
  /\ LET toks == StrSplit(Head(lines))
     IN IF toks = <<>>
        THEN /\ lines' = Tail(lines)
             /\ UNCHANGED <<classes, handles, pc, err>>
        ELSE IF ~IsIntLiteral(toks[1])
        THEN /\ handles' = SelectSeq(handles, LAMBDA q : q # label_paths[i])
             /\ pc' = "error"
             /\ err' = "ValueError"
             /\ UNCHANGED <<classes, lines>>
        ELSE /\ classes' = Append(classes, ParseInt(toks[1]))
             /\ lines' = Tail(lines)
             /\ UNCHANGED <<handles, pc, err>>
  /\ UNCHANGED <<gvars, image_paths, label_paths, img_shapes, i, class_counts, df,
                 tvars, rvars>>

\* lines 96-97, one line of the file
ParseLine ==
  /\ pc = "line"
  /\ lines # <<>>
  /\ LET toks == StrSplit(Head(lines))
     IN IF toks = <<>> THEN RaiseInWith("IndexError")
        ELSE IF ~IsIntLiteral(toks[1]) THEN RaiseInWith("ValueError")
        ELSE /\ classes' = Append(classes, ParseInt(toks[1]))
             /\ lines' = Tail(lines)
             /\ UNCHANGED <<handles, pc, err>>
  /\ UNCHANGED <<gvars, image_paths, label_paths, img_shapes, i, class_counts, df,
                 tvars, rvars>>

\* the inner loop is exhausted: the "with" block of line 94 ends
CloseLabel ==
  /\ pc = "line"
  /\ lines = <<>>
  /\ handles' = Release(handles, label_paths[i])
  /\ pc' = "imread"
  /\ UNCHANGED <<gvars, image_paths, label_paths, classes, img_shapes, i, lines,
                 class_counts, df, err, tvars, rvars>>

\* (variant: a file that cannot be decoded raises)
ReadImageStrict ==
  /\ pc = "imread"
  /\ \E img \in ImageChoices(image_paths[i]) :
       /\ treeImage' = Observe(treeImage, image_paths[i], img)
       /\ IF img.ok
          THEN /\ img_shapes' = Append(img_shapes, <<img.w, img.h>>)
               /\ i' = i + 1
               /\ pc' = "loop"
               /\ err' = err
          ELSE /\ pc' = "error"
               /\ err' = "DecodeError"
               /\ UNCHANGED <<img_shapes, i>>
  /\ UNCHANGED <<gvars, image_paths, label_paths, classes, lines, handles,
                 class_counts, df, treeImages, treeLabel, rvars>>

\* lines 98-101: cv2.imread gives None for a file it cannot decode
ReadImage ==
  /\ pc = "imread"
  /\ \E img \in ImageChoices(image_paths[i]) :
       /\ treeImage' = Observe(treeImage, image_paths[i], img)
       /\ img_shapes' = IF img.ok THEN Append(img_shapes, ShapeEntry(img)) ELSE img_shapes
  /\ i' = i + 1
  /\ pc' = "loop"
  /\ UNCHANGED <<gvars, image_paths, label_paths, classes, lines, handles,
                 class_counts, df, err, treeImages, treeLabel, rvars>>

\* line 103
Count ==
  /\ pc = "count"
  /\ class_counts' = <<Counter(classes)>>
  /\ pc' = "frame"
  /\ UNCHANGED <<gvars, image_paths, label_paths, classes, img_shapes, i, lines,
                 handles, df, err, tvars, rvars>>

\* line 104
Frame ==
  /\ pc = "frame"
  /\ df' = <<DataFrame(img_shapes)>>
  /\ pc' = "done"
  /\ UNCHANGED <<gvars, image_paths, label_paths, classes, img_shapes, i, lines,
                 handles, class_counts, err, tvars, rvars>>

\* Cell 3 has completed and is executed a second time in the same kernel: every
\* name keeps the value the first execution left.
Rerun ==
  /\ pc = "done"
  /\ run = 1
  /\ run' = 2
  /\ prev_counts' = class_counts
  /\ prev_df' = df
  /\ pc' = "glob"
  /\ err' = ""
  /\ UNCHANGED <<gvars, image_paths, label_paths, classes, img_shapes, i, lines,
                 handles, class_counts, df, tvars>>

Pass ==
  \/ Glob \/ DeriveLabels \/ InitLists \/ ZipNext \/ OpenLabel \/ ReadLines
  \/ ParseLine \/ CloseLabel \/ ReadImage \/ Count \/ Frame

Generate ==
  \/ AppendTitle \/ AppendInstall \/ BindDatasets \/ LoopBody \/ AppendDownload
  \/ AppendStats \/ AppendTrain \/ AppendMetrics \/ AppendInference \/ AppendExport
  \/ Assemble \/ Save

\* The script runs, then Cell 3 of the notebook it wrote runs once.
Init == GenInit /\ KernelInit /\ TreeInit /\ RunInit
Next == Generate \/ RunCell \/ Pass
Spec == Init /\ [][Next]_vars

\* The same, and Cell 3 is then executed a second time over the same tree.
NextTwice == Next \/ GlobAgain \/ Rerun
SpecTwice == Init /\ [][NextTwice]_vars

\* The script, then lines 88-89 of Cell 3 over a tree that holds any of TreeFiles:
\* the glob lists those it matches, in any order.
PathInputs ==
  {s \in SeqsUpTo(GlobPaths, MaxPairs) : \A a, b \in DOMAIN s : a # b => s[a] # s[b]}
GlobFiles ==
  /\ pc = "glob"
  /\ treeImages = <<>>
  /\ \E paths \in PathInputs :
       /\ treeImages' = <<Range(paths)>>
       /\ image_paths' = paths
  /\ pc' = "derive"
  /\ UNCHANGED <<gvars, label_paths, classes, img_shapes, i, lines, handles,
                 class_counts, df, err, treeLabel, treeImage, rvars>>
NextPaths == Generate \/ RunCell \/ GlobFiles \/ DeriveLabels
SpecPaths == Init /\ [][NextPaths]_vars

(***************************************************************************)
(*                      What the pass has seen of the tree                 *)
(***************************************************************************)

LabelAt(k) == treeLabel[label_paths[k]]
ImageAt(k) == treeImage[image_paths[k]]
\* pairs of the zip loop that have been processed to their end
Inspected == IF i = 0 THEN 0 ELSE i - 1

WellFormed(line) == StrSplit(line) # <<>> /\ IsIntLiteral(StrSplit(line)[1])
ClassIdOf(line) == ParseInt(StrSplit(line)[1])
IdsOf(content) == [j \in DOMAIN content |-> ClassIdOf(content[j])]
\* the class ids of the label files of the first n pairs, in reading order
RECURSIVE Tallied(_)
Tallied(n) == IF n = 0 THEN <<>> ELSE Tallied(n - 1) \o IdsOf(LabelAt(n).content)
\* the (width, height) of the decodable images among the first n pairs
RECURSIVE Decoded(_)
Decoded(n) ==
  IF n = 0 THEN <<>>
  ELSE IF ImageAt(n).ok
       THEN Append(Decoded(n - 1), <<ImageAt(n).w, ImageAt(n).h>>)
       ELSE Decoded(n - 1)
\* every label line of the pass, as <<file, line>> positions
LinePositions ==
  {pos \in (DOMAIN label_paths) \X (1..MaxLines) :
     /\ label_paths[pos[1]] \in DOMAIN treeLabel
     /\ pos[2] <= Len(LabelAt(pos[1]).content)}
LineAt(pos) == LabelAt(pos[1]).content[pos[2]]
RECURSIVE SumCounts(_)
SumCounts(f) ==
  IF DOMAIN f = {} THEN 0
  ELSE LET c == CHOOSE x \in DOMAIN f : TRUE
       IN f[c] + SumCounts([x \in DOMAIN f \ {c} |-> f[x]])
SeqToBag(s) == [x \in Range(s) |-> Cardinality({k \in DOMAIN s : s[k] = x})]
\* the part of the open label file that the inner loop has consumed
Consumed == SubSeq(LabelAt(i).content, 1, Len(LabelAt(i).content) - Len(lines))
ParseErrors == {"IndexError", "ValueError"}
\* once the cell has ended with an exception nothing more happens
Terminal == pc = "error" => UNCHANGED vars

(***************************************************************************)
(*                              The properties                             *)
(***************************************************************************)

\* C1: when the pass completes, the keys of class_counts are exactly the class ids
\* that are the first token of some label line, each count is the number of label
\* lines of the pass with that first token, and the counts sum to the number of lines.
C1_CountsMatchLines ==
  class_counts # <<>> =>
    LET cc == class_counts[1]
    IN /\ DOMAIN cc = {ClassIdOf(LineAt(pos)) : pos \in LinePositions}
       /\ \A c \in DOMAIN cc :
            cc[c] = Cardinality({pos \in LinePositions : ClassIdOf(LineAt(pos)) = c})
       /\ SumCounts(cc) = Cardinality(LinePositions)
       /\ \A k \in DOMAIN label_paths : label_paths[k] \in DOMAIN treeLabel
C1_Witness ==
  /\ pc = "done"
  /\ Len(label_paths) = 2
  /\ Cardinality(DOMAIN class_counts[1]) = 2
  /\ \E c \in DOMAIN class_counts[1] : class_counts[1][c] = 2
  /\ Len(LabelAt(1).content) > 0 /\ Len(LabelAt(2).content) > 0

\* C2: a label path with no file makes the pass end with FileNotFoundError: the
\* image of that pair is not read, no later pair is processed, no table is
\* produced, and nothing happens afterwards; no missing label is ever passed over.
C2_MissingInv ==
  /\ \A k \in DOMAIN label_paths :
       (label_paths[k] \in DOMAIN treeLabel /\ ~LabelAt(k).exists) =>
         /\ pc = "error" /\ err = "FileNotFoundError" /\ i = k
  /\ (pc = "error" /\ err = "FileNotFoundError") =>
       /\ ~LabelAt(i).exists
       /\ image_paths[i] \notin DOMAIN treeImage
       /\ \A k \in (i + 1)..Len(label_paths) :
            label_paths[k] \notin DOMAIN treeLabel /\ image_paths[k] \notin DOMAIN treeImage
       /\ classes = Tallied(i - 1) /\ img_shapes = Decoded(i - 1)
       /\ class_counts = <<>> /\ df = <<>>
C2_MissingLabelIsFatal == []C2_MissingInv /\ [][Terminal]_vars
C2_Witness ==
  /\ pc = "error" /\ err = "FileNotFoundError"
  /\ i = 1 /\ Len(label_paths) = 2

\* C3: an image that does not decode adds no entry to img_shapes and raises
\* nothing: the loop goes on to the next pair, and the class ids of the label file
\* of that pair stay tallied.
C3_SkipStep ==
  (pc = "imread" /\ pc' # "imread" /\ ~treeImage'[image_paths[i]].ok) =>
    /\ img_shapes' = img_shapes
    /\ classes' = classes
    /\ pc' = "loop" /\ i' = i + 1 /\ err' = ""
C3_SkipInv ==
  (pc \in {"loop", "open", "count", "frame", "done"}) =>
    /\ Len(img_shapes) = Cardinality({k \in 1..Inspected : ImageAt(k).ok})
    /\ \A k \in 1..Inspected :
         ~ImageAt(k).ok =>
           \A j \in DOMAIN LabelAt(k).content :
             \E m \in DOMAIN classes : classes[m] = ClassIdOf(LabelAt(k).content[j])
C3_UndecodableImageIsSkipped == []C3_SkipInv /\ [][C3_SkipStep]_vars
C3_Witness ==
  /\ pc = "done"
  /\ Len(image_paths) = 2
  /\ ~ImageAt(1).ok /\ ImageAt(2).ok
  /\ Len(LabelAt(1).content) > 0
  /\ Len(img_shapes) = 1

\* C4: img_shapes holds, in order, exactly one (width, height) entry for every
\* image decoded so far and nothing else; when the pass completes these are all
\* the decodable files the glob listed, and df carries the same rows.
C4_ShapesMatchImages ==
  /\ img_shapes = Decoded(Inspected)
  /\ Len(img_shapes) <= Len(image_paths)
  /\ pc \in {"count", "frame", "done"} => Inspected = Len(image_paths)
  /\ df # <<>> =>
       /\ Len(df[1]) = Len(Decoded(Len(image_paths)))
       /\ \A k \in DOMAIN df[1] :
            /\ df[1][k].Width = Decoded(Len(image_paths))[k][1]
            /\ df[1][k].Height = Decoded(Len(image_paths))[k][2]
C4_Witness ==
  /\ pc = "done"
  /\ Len(df[1]) = 2
  /\ df[1][1].Width # df[1][1].Height
  /\ df[1][1] # df[1][2]

\* C5: label_paths is as long as image_paths, and each label path is the image
\* path with only the directory segment "images" replaced by "labels" and only
\* the extension ".jpg" replaced by ".txt".
C5_OnlySegmentAndExtension ==
  pc = "lists" =>
    /\ Len(label_paths) = Len(image_paths)
    /\ \A k \in DOMAIN image_paths : label_paths[k] = SiblingLabelPath(image_paths[k])

\* C6: a label line with no token or with a first token that is no integer ends
\* the pass with an exception: the rest of the file and all later files are not
\* parsed, no table is produced, nothing happens afterwards; no such line is ever
\* passed over.
C6_MalformedInv ==
  /\ \A k \in 1..Inspected : \A j \in DOMAIN LabelAt(k).content :
       WellFormed(LabelAt(k).content[j])
  /\ pc \in {"line", "imread"} => \A j \in DOMAIN Consumed : WellFormed(Consumed[j])
  /\ (pc = "error" /\ err \in ParseErrors) =>
       /\ lines # <<>> /\ ~WellFormed(Head(lines))
       /\ err = (IF StrSplit(Head(lines)) = <<>> THEN "IndexError" ELSE "ValueError")
       /\ \A j \in DOMAIN Consumed : WellFormed(Consumed[j])
       /\ classes = Tallied(i - 1) \o IdsOf(Consumed)
       /\ image_paths[i] \notin DOMAIN treeImage
       /\ \A k \in (i + 1)..Len(label_paths) : label_paths[k] \notin DOMAIN treeLabel
       /\ class_counts = <<>> /\ df = <<>>
C6_MalformedLineIsFatal == []C6_MalformedInv /\ [][Terminal]_vars
C6_Witness ==
  /\ pc = "error" /\ err \in ParseErrors
  /\ Len(lines) = 2
  /\ i = 1 /\ Len(label_paths) = 2

\* C7: a second execution of the pass over the unmodified tree completes with a
\* class_counts equal to the first one's and a df whose rows are the first one's
\* rows up to their order.
C7_SecondRunAgrees ==
  run = 2 =>
    /\ pc # "error"
    /\ pc = "done" =>
         /\ class_counts = prev_counts
         /\ SeqToBag(df[1]) = SeqToBag(prev_df[1])
C7_Witness ==
  /\ run = 2 /\ pc = "done"
  /\ df # prev_df
  /\ Len(classes) = 2

\* C8: at most one label file is open at any time: exactly the file of the
\* current pair while its lines are read and parsed, and none at any other
\* point, in particular while the image is read and after the pass has ended.
C8_HandleScoped ==
  /\ Len(handles) <= 1
  /\ handles = (IF pc \in {"readlines", "line"} THEN <<label_paths[i]>> ELSE <<>>)
C8_Witness ==
  /\ pc = "error" /\ err = "ValueError"
  /\ handles = <<>>
  /\ i = 2

\* C9: notebook_cells only grows at its end; the finished notebook has 8 cells, a
\* markdown title and 7 code cells in the order install, download, statistics,
\* training, metrics, inference, export; the file is written once, after the last
\* append, and holds these 8 cells.
Heading(cell) ==
  LET src == IF cell.source.ref = "cell_source" THEN cell_source
             ELSE SourceText(cell.source)
  IN src[1].text
WorkflowHeadings ==
  << <<"#", " Complete Fire + Weapon Detection AI Model (YOLOv12)">>,
     <<"#", " Install dependencies">>,
     <<"#", " Download Datasets from Roboflow">>,
     <<"#", " Dataset analysis: visualize samples, classes, sizes">>,
     <<"#", " Train YOLOv12 on merged dataset">>,
     <<"#", " Training metrics visualization">>,
     <<"#", " Run detection and evaluate">>,
     <<"#", " Save model">> >>
C9_Finished ==
  /\ Len(notebook_cells) <= 8
  /\ \A k \in DOMAIN notebook_cells :
       /\ notebook_cells[k].cell_type = (IF k = 1 THEN "markdown" ELSE "code")
       /\ Heading(notebook_cells[k]) = WorkflowHeadings[k]
  /\ gpc \in {"assemble", "save", "done"} => Len(notebook_cells) = 8
  /\ dumps = (IF gpc = "done" THEN 1 ELSE 0)
  /\ (nb_file # <<>>) = (gpc = "done")
  /\ nb_file # <<>> =>
       /\ Len(nb_file[1].cells) = 8
       /\ \A k \in 1..8 :
            /\ nb_file[1].cells[k].cell_type = notebook_cells[k].cell_type
            /\ SourceText(nb_file[1].cells[k].source) =
                 (IF notebook_cells[k].source.ref = "cell_source" THEN cell_source
                  ELSE SourceText(notebook_cells[k].source))
C9_AppendOnlyStep ==
  /\ \/ notebook_cells' = notebook_cells
     \/ /\ Len(notebook_cells') = Len(notebook_cells) + 1
        /\ SubSeq(notebook_cells', 1, Len(notebook_cells)) = notebook_cells
  /\ Len(notebook_cells) >= 3 => cell_source' = cell_source
  /\ nb_file # <<>> => nb_file' = nb_file
C9_AssembledByAppends == []C9_Finished /\ [][C9_AppendOnlyStep]_vars
C9_Witness ==
  /\ gpc = "done" /\ dumps = 1
  /\ Len(nb_file[1].cells) = 8

\* C10: the download cell has 3 + 3 * len(datasets) lines: the 3 header lines, then
\* for each dataset in list order its three statements, each a line of its own,
\* so that every download statement is an executable statement of the cell.
C10_DownloadCellLines ==
  gpc = "done" =>
    LET ls == CellLines(nb_file[1].cells[3].source)
    IN /\ Len(ls) = 3 + 3 * Len(datasets)
       /\ \A k \in 1..Len(datasets) :
            /\ ls[3 * k + 1] = ProjectStmt(datasets[k]).text
            /\ ls[3 * k + 2] = VersionStmt(datasets[k]).text
            /\ ls[3 * k + 3] = DownloadStmt.text
       /\ \A k \in 4..Len(ls) : ~IsComment(ls[k])

====
